---- MODULE Spec2Model ----
(***************************************************************************)
(* Model of cnproc (src/src/lib.rs): PidMonitor, a netlink process-events  *)
(* connector session.  from_id builds the session (socket, bind,           *)
(* setsockopt, writev), recv/get_events receive datagrams and walk their   *)
(* netlink frames, parse_msg decodes one frame, Drop closes the socket.    *)
(*                                                                         *)
(* The receive buffer is modelled as a sequence of 32-bit words (the code  *)
(* allocates a Vec<u32>); lengths and offsets are in bytes as in the code. *)
(* Words are written as 32-bit patterns; the host is little-endian, so the *)
(* 16-bit nlmsg_type is the low half of the second header word.            *)
(***************************************************************************)
EXTENDS Integers, Sequences, FiniteSets, TLC

\* ---------------------------------------------------------------- bounds
\* frames per modelled datagram
MaxFrames == 2
\* receives one get_events call may perform in the model
MaxRecvs == 2
\* iterations of the frame-walk loop followed per datagram
MaxIter == 4

\* ------------------------------------------------- wire layout (kernel ABI)
SizeofNlmsghdr == 16
SizeofCnMsg == 20
SizeofProcEvent == 40
NLMSG_NOOP == 1
NLMSG_ERROR == 2
NLMSG_DONE == 3
CN_IDX_PROC == 1
CN_VAL_PROC == 1
PROC_EVENT_FORK == 1
PROC_EVENT_EXEC == 2
\* 0x40000000
PROC_EVENT_COREDUMP == 1073741824
\* 0x80000000, written as the 32-bit pattern
PROC_EVENT_EXIT == (-2147483647) - 1
\* byte offset of event_data inside proc_event (what, cpu, timestamp_ns)
EventDataOffset == 16

\* ------------------------------------------------------ netlink.h macros
\* an alignment that clears the low bits without adding 3 first
nlmsg_align_down(len) == len - (len % 4)

nlmsg_align(len) == (len + 3) - ((len + 3) % 4)

nlmsg_hdrlen == nlmsg_align(SizeofNlmsghdr)

nlmsg_length(len) == len + nlmsg_hdrlen

\* --------------------------------------------------------------- records
None == [tag |-> "None"]

\* ------------------------------------------------------- buffer reading
\* The 32-bit word at byte offset o of the buffer b, of which n bytes were
\* filled by the receive.  The buffer is allocated uninitialised
\* (with_capacity + set_len), so a word not wholly inside the filled part
\* holds whatever the allocation held: the value g chosen at the receive.
Word(b, n, g, o) == IF o + 4 <= n THEN b[(o \div 4) + 1] ELSE g

\* a namespace test that rejects only when both identifiers differ
IsForeignBoth(idx, val) == idx # CN_IDX_PROC /\ val # CN_VAL_PROC

\* parse_msg: the test on the envelope's namespace pair
IsForeign(idx, val) == idx # CN_IDX_PROC \/ val # CN_VAL_PROC

\* a decoder whose catch-all arm yields an Exec record
ProcEventCatchAllExec(what, d) ==
    IF what = PROC_EVENT_FORK THEN
        [tag |-> "Fork", child_pid |-> d[3], child_tgid |-> d[4],
         parent_pid |-> d[1], parent_tgid |-> d[2]]
    ELSE IF what = PROC_EVENT_EXIT THEN
        [tag |-> "Exit", process_pid |-> d[1], process_tgid |-> d[2],
         parent_pid |-> d[5], parent_tgid |-> d[6],
         exit_code |-> d[3], exit_signal |-> d[4]]
    ELSE IF what = PROC_EVENT_COREDUMP THEN
        [tag |-> "Coredump", process_pid |-> d[1], process_tgid |-> d[2],
         parent_pid |-> d[3], parent_tgid |-> d[4]]
    ELSE [tag |-> "Exec", process_pid |-> d[1], process_tgid |-> d[2]]

\* a decoder that takes the Fork record's child from the parent fields
ProcEventForkSwapped(what, d) ==
    IF what = PROC_EVENT_FORK THEN
        [tag |-> "Fork", child_pid |-> d[1], child_tgid |-> d[2],
         parent_pid |-> d[3], parent_tgid |-> d[4]]
    ELSE IF what = PROC_EVENT_EXEC THEN
        [tag |-> "Exec", process_pid |-> d[1], process_tgid |-> d[2]]
    ELSE IF what = PROC_EVENT_EXIT THEN
        [tag |-> "Exit", process_pid |-> d[1], process_tgid |-> d[2],
         parent_pid |-> d[5], parent_tgid |-> d[6],
         exit_code |-> d[3], exit_signal |-> d[4]]
    ELSE IF what = PROC_EVENT_COREDUMP THEN
        [tag |-> "Coredump", process_pid |-> d[1], process_tgid |-> d[2],
         parent_pid |-> d[3], parent_tgid |-> d[4]]
    ELSE None

\* parse_msg: the match on proc_ev.what; d holds the six words of event_data
\* (fork: parent_pid, parent_tgid, child_pid, child_tgid; exec: process_pid,
\* process_tgid; exit: process_pid, process_tgid, exit_code, exit_signal,
\* parent_pid, parent_tgid; coredump: process_pid, process_tgid, parent_pid,
\* parent_tgid)
ProcEvent(what, d) ==
    IF what = PROC_EVENT_FORK THEN
        [tag |-> "Fork", child_pid |-> d[3], child_tgid |-> d[4],
         parent_pid |-> d[1], parent_tgid |-> d[2]]
    ELSE IF what = PROC_EVENT_EXEC THEN
        [tag |-> "Exec", process_pid |-> d[1], process_tgid |-> d[2]]
    ELSE IF what = PROC_EVENT_EXIT THEN
        [tag |-> "Exit", process_pid |-> d[1], process_tgid |-> d[2],
         parent_pid |-> d[5], parent_tgid |-> d[6],
         exit_code |-> d[3], exit_signal |-> d[4]]
    ELSE IF what = PROC_EVENT_COREDUMP THEN
        [tag |-> "Coredump", process_pid |-> d[1], process_tgid |-> d[2],
         parent_pid |-> d[3], parent_tgid |-> d[4]]
    ELSE None

\* parse_msg: decode the frame whose header is at byte offset h
parse_msg(b, n, g, h) ==
    LET msg == h + nlmsg_length(0)
        idx == Word(b, n, g, msg)
        val == Word(b, n, g, msg + 4)
        ev == msg + SizeofCnMsg
        what == Word(b, n, g, ev)
        d == [k \in 1..6 |-> Word(b, n, g, ev + EventDataOffset + 4 * (k - 1))]
    IN  IF IsForeign(idx, val) THEN None ELSE ProcEvent(what, d)

\* ------------------------------------------------------ modelled inputs
\* One frame as the kernel lays it out: nlmsghdr (len, type|flags, seq,
\* pid), cn_msg (idx, val, seq, ack, len|flags), proc_event (what, cpu,
\* timestamp_ns, event_data[6]); w is the number of words it occupies.
Frame(len, type, idx, val, what, data, w) ==
    SubSeq(<<len, type, 0, 0, idx, val, 0, 0, SizeofProcEvent, what, 0, 0, 0>>
           \o data, 1, w)

FullLen == nlmsg_length(SizeofCnMsg + SizeofProcEvent)

FullWords == FullLen \div 4

ForkData == <<1, 1, 100, 100, 0, 0>>

ExecData == <<300, 301, 0, 0, 0, 0>>

ExitData == <<200, 201, 9, 17, 1, 2>>

CoreData == <<400, 401, 3, 4, 0, 0>>

ProcFrame(what, data) ==
    Frame(FullLen, NLMSG_DONE, CN_IDX_PROC, CN_VAL_PROC, what, data, FullWords)

ForkFrame == ProcFrame(PROC_EVENT_FORK, ForkData)

ExecFrame == ProcFrame(PROC_EVENT_EXEC, ExecData)

ExitFrame == ProcFrame(PROC_EVENT_EXIT, ExitData)

CoredumpFrame == ProcFrame(PROC_EVENT_COREDUMP, CoreData)

\* foreign namespace pair
ForeignFrame ==
    Frame(FullLen, NLMSG_DONE, 2, CN_VAL_PROC, PROC_EVENT_FORK, ForkData, FullWords)

\* unknown discriminant
UnknownFrame == ProcFrame(3, ForkData)

\* control frames
NoopFrame ==
    Frame(FullLen, NLMSG_NOOP, CN_IDX_PROC, CN_VAL_PROC, PROC_EVENT_FORK, ForkData, FullWords)

ErrorFrame ==
    Frame(FullLen, NLMSG_ERROR, CN_IDX_PROC, CN_VAL_PROC, PROC_EVENT_FORK, ForkData, FullWords)

\* declared length 0
ZeroLenFrame ==
    Frame(0, NLMSG_DONE, CN_IDX_PROC, CN_VAL_PROC, PROC_EVENT_EXEC, ExecData, FullWords)

\* declared length not a multiple of 4
OddLenFrame ==
    Frame(FullLen - 2, NLMSG_DONE, CN_IDX_PROC, CN_VAL_PROC, PROC_EVENT_EXEC, ExecData, FullWords)

\* declared length covering the two headers only
ShortFrame ==
    Frame(nlmsg_length(SizeofCnMsg), NLMSG_DONE, CN_IDX_PROC, CN_VAL_PROC, 0, <<>>,
          nlmsg_length(SizeofCnMsg) \div 4)

Frames ==
    { ForkFrame, ExecFrame, ExitFrame, CoredumpFrame, ForeignFrame, UnknownFrame,
      NoopFrame, ErrorFrame, ZeroLenFrame, OddLenFrame, ShortFrame }

RECURSIVE Concat(_)
Concat(fs) == IF fs = <<>> THEN <<>> ELSE Head(fs) \o Concat(Tail(fs))

Payloads == { Concat(fs) : fs \in UNION { [1..k -> Frames] : k \in 1..MaxFrames } }

\* bytes by which a receive may fall short of the datagram's frames
Cuts == {0, 2, 64}

\* what the uninitialised part of the buffer may hold (every word alike)
Fills == {0, 1}


\* ---------------------------------------------------------------- state
VARIABLES
    pc,        \* position: from_id steps, "idle", "while", "recv", "walk", "failed", "dropped"
    fd,        \* PidMonitor.fd / the local fd of from_id
    sock,      \* the kernel socket: "none", "open", "closed"
    closes,    \* number of close() calls made on the socket
    result,    \* what from_id returned: "pending", "Ok", "Err"
    syscalls,  \* the system calls of from_id/listen in order, with their outcome
    queue,     \* PidMonitor.queue
    ret,       \* the value the last recv() call returned
    nrecv,     \* libc::recv calls made by the current (or last) recv() call
    lastRecv,  \* outcome of the last libc::recv of that call: "none", "err", "zero", "data"
    buf,       \* words of the buffer filled by the last receive
    blen,      \* bytes filled by the last receive
    fill,      \* content of the buffer words the receive did not fill
    off,       \* header - buffer.as_ptr(), in bytes
    len,       \* remaining bytes (the walk's len)
    iter,      \* iterations of the walk loop made on this datagram
    visited,   \* offsets of the frames handed to parse_msg on this datagram
    pushed,    \* records pushed on the queue since it was last found empty by recv()
    returned,  \* records returned by recv() since then
    halt,      \* why the last walk stopped: "none", "hdr", "len", "sub"
    sent,      \* the writev calls of listen: the iovec lengths and the header fields
    pageSize,  \* what sysconf(_SC_PAGE_SIZE) returns on this system
    recvCap    \* the length argument of the last libc::recv

vars == <<pc, fd, sock, closes, result, syscalls, queue, ret, nrecv, lastRecv,
          buf, blen, fill, off, len, iter, visited, pushed, returned, halt,
          sent, pageSize, recvCap>>

sessionVars == <<queue, ret, nrecv, lastRecv, buf, blen, fill, off, len, iter,
                 visited, pushed, returned, halt, recvCap>>

osVars == <<fd, sock, closes, result, syscalls, sent, pageSize>>

walkVars == <<buf, blen, fill, off, len, iter, visited, halt>>

\* page sizes of the systems modelled
PageSizes == {4096, 65536}

InitSession ==
    /\ pc = "from_id"
    /\ fd = -1
    /\ sock = "none"
    /\ closes = 0
    /\ result = "pending"
    /\ syscalls = <<>>
    /\ queue = <<>>
    /\ ret = None
    /\ nrecv = 0
    /\ lastRecv = "none"
    /\ buf = <<>>
    /\ blen = 0
    /\ fill = 0
    /\ off = 0
    /\ len = 0
    /\ iter = 0
    /\ visited = <<>>
    /\ pushed = <<>>
    /\ returned = <<>>
    /\ halt = "none"
    /\ sent = <<>>
    /\ recvCap = 0

Init == InitSession /\ pageSize = 4096

\* the same session on a system of any modelled page size
InitAnyPage == InitSession /\ pageSize \in PageSizes

Call(name, ok) == [name |-> name, ok |-> ok]

\* ------------------------------------------------------------- from_id
\* libc::socket: the result is stored and not tested
Socket ==
    /\ pc = "from_id"
    /\ \E ok \in BOOLEAN :
        /\ syscalls' = Append(syscalls, Call("socket", ok))
        /\ fd' = IF ok THEN 3 ELSE -1
        /\ sock' = IF ok THEN "open" ELSE "none"
    /\ pc' = "bind"
    /\ UNCHANGED <<closes, result, sent, pageSize, sessionVars>>

\* a from_id that does not test what bind returned
BindUnchecked(rc) == TRUE

\* whether from_id goes on after bind returned
BindOk(rc) == ~(rc < 0)

\* libc::bind; on failure from_id returns the error, before any PidMonitor exists
Bind ==
    /\ pc = "bind"
    /\ \E rc \in (IF fd < 0 THEN {-1} ELSE {-1, 0}) :
        /\ syscalls' = Append(syscalls, Call("bind", rc = 0))
        /\ IF BindOk(rc)
             THEN pc' = "setsockopt" /\ result' = result
             ELSE pc' = "failed" /\ result' = "Err"
    /\ UNCHANGED <<fd, sock, closes, sent, pageSize, sessionVars>>

\* Drop for PidMonitor: libc::close(self.fd)
Close(s) == IF s = "open" THEN "closed" ELSE s

\* a listen that does not test what setsockopt returned
SockOptUnchecked(rc) == TRUE

\* whether listen goes on after setsockopt returned
SockOptOk(rc) == ~(rc < 0)

\* listen: setsockopt(NETLINK_NO_ENOBUFS); on failure `?` returns the error
\* and the monitor built by from_id is dropped
SetSockOpt ==
    /\ pc = "setsockopt"
    /\ \E rc \in {-1, 0} :
        /\ syscalls' = Append(syscalls, Call("setsockopt", rc = 0))
        /\ IF SockOptOk(rc)
             THEN pc' = "writev" /\ UNCHANGED <<sock, closes, result>>
             ELSE /\ pc' = "failed"
                  /\ result' = "Err"
                  /\ sock' = Close(sock)
                  /\ closes' = closes + 1
    /\ UNCHANGED <<fd, sent, pageSize, sessionVars>>

\* size of proc_cn_mcast_op and the value of PROC_CN_MCAST_LISTEN
SizeofMcastOp == 4

PROC_CN_MCAST_LISTEN == 1

\* the listen datagram as listen hands it to writev: the lengths of the
\* three iovecs and the fields it sets (the subscriber id is left symbolic)
ListenDatagram ==
    [iov |-> <<SizeofNlmsghdr, SizeofCnMsg, SizeofMcastOp>>,
     nlmsg_len |-> nlmsg_length(SizeofCnMsg + SizeofMcastOp),
     nlmsg_type |-> NLMSG_DONE,
     nlmsg_pid |-> "id",
     idx |-> CN_IDX_PROC,
     val |-> CN_VAL_PROC,
     cn_len |-> SizeofMcastOp,
     op |-> PROC_CN_MCAST_LISTEN]

\* listen: one writev of the three parts of the listen datagram
Writev ==
    /\ pc = "writev"
    /\ sent' = Append(sent, ListenDatagram)
    /\ \E ok \in BOOLEAN :
        /\ syscalls' = Append(syscalls, Call("writev", ok))
        /\ IF ok
             THEN pc' = "idle" /\ result' = "Ok" /\ UNCHANGED <<sock, closes>>
             ELSE /\ pc' = "failed"
                  /\ result' = "Err"
                  /\ sock' = Close(sock)
                  /\ closes' = closes + 1
    /\ UNCHANGED <<fd, pageSize, sessionVars>>

\* the owner drops the session
Drop ==
    /\ pc = "idle"
    /\ pc' = "dropped"
    /\ sock' = Close(sock)
    /\ closes' = closes + 1
    /\ UNCHANGED <<fd, result, syscalls, sent, pageSize, sessionVars>>

\* ---------------------------------------------------------------- recv
\* the record put at the head instead of the tail
push_front(q, e) == <<e>> \o q

push_back(q, e) == Append(q, e)

\* VecDeque::pop_front as used by recv: the value returned
pop_front(q) == IF q = <<>> THEN None ELSE Head(q)

\* the head read without being removed
peeked(q) == q

\* the queue after pop_front
popped(q) == IF q = <<>> THEN <<>> ELSE Tail(q)

\* a recv that hands the receive error to its caller
RecvResultSurfacing(res, q) == IF res = "Ok" THEN pop_front(q) ELSE [tag |-> "Err"]

\* recv: the match on what get_events returned
RecvResult(res, q) == IF res = "Ok" THEN pop_front(q) ELSE None

\* recv() called: a non-empty queue is popped at once, an empty one enters
\* get_events (which allocates its buffer and reaches the while loop)
RecvCall ==
    /\ pc = "idle"
    /\ IF queue # <<>>
         THEN /\ ret' = pop_front(queue)
              /\ queue' = popped(queue)
              /\ returned' = Append(returned, pop_front(queue))
              /\ pc' = "idle"
              /\ UNCHANGED <<nrecv, lastRecv, pushed, walkVars, recvCap>>
         ELSE /\ pc' = "while"
              /\ nrecv' = 0
              /\ lastRecv' = "none"
              /\ pushed' = <<>>
              /\ returned' = <<>>
              /\ buf' = <<>>
              /\ blen' = 0
              /\ fill' = 0
              /\ off' = 0
              /\ len' = 0
              /\ iter' = 0
              /\ visited' = <<>>
              /\ halt' = "none"
              /\ recvCap' = 0
              /\ UNCHANGED <<queue, ret>>
    /\ UNCHANGED osVars

\* get_events finished (Ok or Err) and recv returns
Return(res) ==
    /\ pc' = "idle"
    /\ ret' = RecvResult(res, queue)
    /\ queue' = IF res = "Ok" THEN popped(queue) ELSE queue
    /\ returned' = IF res = "Ok" /\ queue # <<>>
                     THEN Append(returned, pop_front(queue)) ELSE returned

\* a get_events without the len == 0 case
RecvOutcomeNoZero(n) == IF n < 0 THEN "err" ELSE "walk"

\* what get_events does with the value of libc::recv:
\* "err" (return Err), "zero" (return Ok), "walk" (scan the buffer)
RecvOutcome(n) == IF n < 0 THEN "err" ELSE IF n = 0 THEN "zero" ELSE "walk"

\* what one libc::recv may deliver: a failure (n = -1), nothing (n = 0), or
\* the first n bytes of a datagram, with g left in the rest of the buffer
Deliveries ==
    { [n |-> k, words |-> <<>>, g |-> 0] : k \in {-1, 0} }
    \cup { [n |-> 4 * Len(p) - c, words |-> p, g |-> g] :
             p \in Payloads, c \in { x \in Cuts : x < 4 }, g \in Fills }
    \cup { [n |-> 4 * Len(p) - c, words |-> p, g |-> g] :
             p \in { q \in Payloads : Len(q) >= FullWords },
             c \in { x \in Cuts : x >= 4 }, g \in Fills }

\* a get_events that receives once (`if` for `while`)
ReceiveOnce == queue = <<>> /\ nrecv = 0

\* a receive loop that goes round whatever the queue holds
LoopAlways == TRUE

\* the condition of the receive loop: while self.queue.is_empty()
WhileQueueEmpty == queue = <<>>

\* the loop condition holds: the body starts and blocks in libc::recv.  The
\* body's locals (header, len) are out of scope and nothing of the buffer
\* is valid for this turn yet.
LoopAgain ==
    /\ pc = "while"
    /\ WhileQueueEmpty
    /\ pc' = "recv"
    /\ buf' = <<>>
    /\ blen' = 0
    /\ fill' = 0
    /\ off' = 0
    /\ len' = 0
    /\ iter' = 0
    /\ visited' = <<>>
    /\ halt' = "none"
    /\ UNCHANGED <<queue, ret, nrecv, lastRecv, pushed, returned, recvCap, osVars>>

\* the 8192 of get_events
MaxBuffer == 8192

\* get_events: page_size, the capacity asked of Vec::<u32>::with_capacity
\* (a failed sysconf, -1 as usize, is above 8192)
BufferCapacity(ps) == IF ps < 0 \/ ps > MaxBuffer THEN MaxBuffer ELSE ps

\* the length get_events passes to libc::recv: buff_size * 4
RecvLength(ps) == BufferCapacity(ps) * 4

\* libc::recv returns
Receive ==
    /\ pc = "recv"
    /\ nrecv < MaxRecvs
    /\ nrecv' = nrecv + 1
    /\ recvCap' = RecvLength(pageSize)
    /\ \E d \in Deliveries :
        LET o == RecvOutcome(d.n)
        IN  /\ lastRecv' = IF d.n < 0 THEN "err" ELSE IF d.n = 0 THEN "zero" ELSE "data"
            /\ IF o = "walk"
                 THEN /\ pc' = "walk"
                      /\ buf' = d.words
                      /\ blen' = d.n
                      /\ fill' = d.g
                      /\ off' = 0
                      /\ len' = d.n
                      /\ iter' = 0
                      /\ visited' = <<>>
                      /\ halt' = "none"
                      /\ UNCHANGED <<queue, ret, returned>>
                 ELSE /\ Return(IF o = "err" THEN "Err" ELSE "Ok")
                      /\ UNCHANGED walkVars
    /\ UNCHANGED <<pushed, osVars>>

\* the while condition fails: get_events returns Ok and recv pops the head
GetEventsReturn ==
    /\ pc = "while"
    /\ ~WhileQueueEmpty
    /\ Return("Ok")
    /\ UNCHANGED <<nrecv, lastRecv, pushed, walkVars, recvCap, osVars>>

\* a walk that tests the header size only
NlmsgOkHdrOnly(remaining, msg_len) ==
    IF remaining < nlmsg_hdrlen THEN "hdr" ELSE "ok"

\* NLMSG_OK as the walk tests it: "hdr", "len" (stop) or "ok"
NlmsgOk(remaining, msg_len) ==
    IF remaining < nlmsg_hdrlen THEN "hdr"
    ELSE IF remaining < msg_len THEN "len"
    ELSE "ok"

\* the match on msg_type: TRUE when the frame is not decoded
IsControl(msg_type) == msg_type \in {NLMSG_ERROR, NLMSG_NOOP}

\* what the walk does after a control frame: the cursor and the remaining
\* bytes it goes on with (`continue`)
AfterControl(o, remaining, msg_len) == <<o, remaining>>

\* a subtraction that is not checked: a negative result stands for the
\* wrapped-around usize
unchecked_sub(a, b) == a - b

\* usize::checked_sub: the difference, or -1 for None
checked_sub(a, b) == IF a >= b THEN a - b ELSE -1

\* one iteration of the frame-walk loop
WalkStep ==
    /\ pc = "walk"
    /\ iter < MaxIter
    /\ iter' = iter + 1
    /\ LET msg_len == Word(buf, blen, fill, off)
           msg_type == Word(buf, blen, fill, off + 4) % 65536
           ok == NlmsgOk(len, msg_len)
           ev == parse_msg(buf, blen, fill, off)
           aligned_len == nlmsg_align(msg_len)
       IN  IF ok # "ok"
             THEN /\ pc' = "while"
                  /\ halt' = ok
                  /\ UNCHANGED <<off, len, visited, pushed, queue>>
           ELSE IF IsControl(msg_type)
             THEN /\ pc' = "walk"
                  /\ off' = AfterControl(off, len, msg_len)[1]
                  /\ len' = AfterControl(off, len, msg_len)[2]
                  /\ UNCHANGED <<halt, visited, pushed, queue>>
           ELSE /\ visited' = Append(visited, off)
                /\ queue' = IF ev # None THEN push_back(queue, ev) ELSE queue
                /\ pushed' = IF ev # None THEN Append(pushed, [off |-> off, ev |-> ev])
                                          ELSE pushed
                /\ off' = off + aligned_len
                /\ IF checked_sub(len, aligned_len) # -1
                     THEN /\ pc' = "walk"
                          /\ len' = checked_sub(len, aligned_len)
                          /\ halt' = halt
                     ELSE pc' = "while" /\ len' = len /\ halt' = "sub"
    /\ UNCHANGED <<ret, nrecv, lastRecv, returned, buf, blen, fill, recvCap, osVars>>

Next ==
    \/ Socket
    \/ Bind
    \/ SetSockOpt
    \/ Writev
    \/ Drop
    \/ RecvCall
    \/ LoopAgain
    \/ Receive
    \/ GetEventsReturn
    \/ WalkStep

Spec == Init /\ [][Next]_vars

SpecAnyPage == InitAnyPage /\ [][Next]_vars

\* ------------------------------------------------------------ properties
\* the frame under the walk's cursor
CurLen == Word(buf, blen, fill, off)

CurType == Word(buf, blen, fill, off + 4) % 65536

\* a step of a recv() call that starts on an idle session
RecvStarts == pc = "idle" /\ pc' # "dropped"

\* C1 as stated: a recv() call on an empty queue performs exactly one
\* receive; a pass that produced zero records makes it return none without
\* a second receive.
C1_SingleReceive == nrecv <= 1

\* C1 amended: a recv() call on an empty queue keeps receiving until a pass
\* has enqueued a record.  While the queue is empty in the receive loop the
\* only thing the call does is one more receive, and the call returns none
\* only after a receive that failed or returned zero bytes.
C1_ReceivesUntilRecord ==
    /\ []((pc = "idle" /\ ret = None /\ nrecv >= 1) => lastRecv \in {"err", "zero"})
    /\ [][(pc = "while" /\ queue = <<>>) => (pc' = "recv" /\ queue' = <<>>)]_vars
    /\ [][pc = "recv" => (nrecv' = nrecv + 1 /\ lastRecv' # "none")]_vars

\* a second receive of one call, made after a pass that produced no record
C1_Witness == pc = "walk" /\ nrecv = 2 /\ lastRecv = "data" /\ halt = "none"

\* C2: the records recv() returns are the records decoded from the
\* received datagram, in frame order: what was returned followed by what
\* waits in the queue is what the walk pushed, every pushed record is the
\* decoding of the frame at its offset, the pushed frames are the visited
\* frames that decode to a record, returned records come from strictly
\* increasing offsets, and once all are returned the queue is empty and the
\* next recv() enters the receive loop afresh.
C2_FifoDelivery ==
    /\ [](/\ returned \o queue = [i \in 1..Len(pushed) |-> pushed[i].ev]
          /\ \A i \in 1..Len(pushed) :
                /\ pushed[i].ev # None
                /\ pushed[i].ev = parse_msg(buf, blen, fill, pushed[i].off)
          /\ [i \in 1..Len(pushed) |-> pushed[i].off]
               = SelectSeq(visited, LAMBDA o : parse_msg(buf, blen, fill, o) # None)
          /\ pc = "idle" =>
                \A i, j \in 1..Len(pushed) : i < j => pushed[i].off < pushed[j].off
          /\ (pc = "idle" /\ Len(returned) = Len(pushed)) => queue = <<>>)
    /\ [][(RecvStarts /\ queue = <<>>) =>
            (pc' = "while" /\ nrecv' = 0 /\ queue' = <<>>)]_vars

\* Scenario B: Fork then Exit were returned by two calls, the queue is empty
C2_Witness ==
    /\ pc = "idle"
    /\ Len(returned) = 2
    /\ returned[1].tag = "Fork"
    /\ returned[2].tag = "Exit"
    /\ queue = <<>>

\* C3: recv() on a non-empty queue returns the head and removes exactly it,
\* performs no receive and leaves the rest of the session alone.
C3_PopWithoutReceive ==
    [][(RecvStarts /\ queue # <<>>) =>
        /\ ret' = Head(queue)
        /\ queue' = Tail(queue)
        /\ pc' = "idle"
        /\ UNCHANGED <<nrecv, lastRecv, buf, blen, fill, off, len, sock>>]_vars

\* the second record of a pass was returned from the non-empty queue
C3_Witness ==
    /\ pc = "idle"
    /\ Len(returned) = 2
    /\ ret = returned[2]
    /\ nrecv = 1

\* C4: a failed receive makes recv() return none, not an error; the queue
\* stays as it was (empty), the socket stays open, and the next recv()
\* enters the receive loop again.
C4_ErrorAbsorbed ==
    /\ []((pc = "idle" /\ lastRecv = "err") =>
            (ret = None /\ queue = <<>> /\ sock = "open" /\ closes = 0 /\ result = "Ok"))
    /\ [][(lastRecv' = "err" /\ lastRecv # "err") =>
            (pc' = "idle" /\ ret' = None /\ queue' = queue /\ sock' = sock)]_vars
    /\ [][(RecvStarts /\ lastRecv = "err") =>
            (pc' = "while" /\ WhileQueueEmpty' /\ nrecv' = 0)]_vars

\* recv() has returned after a receive that failed
C4_Witness == pc = "idle" /\ lastRecv = "err" /\ ret = None /\ nrecv >= 1

\* C5: a receive of zero bytes makes recv() return none; nothing marks the
\* session as ended, the socket stays open, and the next recv() enters the
\* receive loop again.
C5_ZeroLengthReceive ==
    /\ []((pc = "idle" /\ lastRecv = "zero") =>
            (ret = None /\ queue = <<>> /\ sock = "open" /\ closes = 0))
    /\ [][(lastRecv' = "zero" /\ lastRecv # "zero") =>
            (pc' = "idle" /\ ret' = None /\ sock' = sock)]_vars
    /\ [][(RecvStarts /\ lastRecv = "zero") =>
            (pc' = "while" /\ WhileQueueEmpty' /\ nrecv' = 0)]_vars

\* recv() has returned after a receive of zero bytes
C5_Witness == pc = "idle" /\ lastRecv = "zero" /\ ret = None /\ nrecv >= 1

\* C6 as stated: whenever from_id has returned an error, the socket it
\* created has been closed.
C6_FailedConstructionClosesSocket == result = "Err" => sock # "open"

\* C7: from_id returns a session only if socket, bind, setsockopt and
\* writev all succeeded; a failed step makes it return an error, no
\* setsockopt or writev follows a failed step, and no step is made twice.
C7_ConstructionAllOrNothing ==
    LET order == <<"socket", "bind", "setsockopt", "writev">>
        n == Len(syscalls)
    IN  /\ n <= 4
        /\ \A i \in 1..n : syscalls[i].name = order[i]
        /\ result = "Ok" <=> (n = 4 /\ \A i \in 1..n : syscalls[i].ok)
        /\ result = "Err" <=> pc = "failed"
        /\ \A i \in 1..n : ~syscalls[i].ok =>
              /\ result = "Err" \/ (i = 1 /\ pc = "bind")
              /\ \A j \in (i + 1)..n : syscalls[j].name = "bind" /\ ~syscalls[j].ok
        /\ result # "Ok" => pc \notin {"idle", "while", "recv", "walk", "dropped"}

\* socket() failed, the bind on the invalid descriptor failed, from_id
\* returned the error
C7_Witness ==
    /\ result = "Err"
    /\ Len(syscalls) = 2
    /\ ~syscalls[1].ok

\* C8 as stated: on every path a created socket is closed exactly once,
\* never twice and never left open once construction failed or the session
\* was dropped.
C8_ClosedExactlyOnce ==
    /\ closes <= 1
    /\ (pc \in {"failed", "dropped"} /\ sock # "none") => (sock = "closed" /\ closes = 1)

\* C9 as stated: a walk step on a well-formed error or no-op frame advances
\* the cursor by the frame's padded length without decoding the frame.
C9_ControlFrameAdvances ==
    [][(pc = "walk" /\ NlmsgOk(len, CurLen) = "ok" /\ IsControl(CurType)) =>
        (off' = off + nlmsg_align(CurLen) /\ queue' = queue)]_vars

Ceil4(L) == ((L + 3) \div 4) * 4

CurIdx == Word(buf, blen, fill, off + nlmsg_hdrlen)

CurVal == Word(buf, blen, fill, off + nlmsg_hdrlen + 4)

CurWhat == Word(buf, blen, fill, off + nlmsg_hdrlen + SizeofCnMsg)

\* the walk is at a frame it hands to parse_msg
AtDecodedFrame == pc = "walk" /\ NlmsgOk(len, CurLen) = "ok" /\ ~IsControl(CurType)

ForkRecord ==
    [tag |-> "Fork", child_pid |-> 100, child_tgid |-> 100,
     parent_pid |-> 1, parent_tgid |-> 1]

ExecRecord == [tag |-> "Exec", process_pid |-> 300, process_tgid |-> 301]

ExitRecord ==
    [tag |-> "Exit", process_pid |-> 200, process_tgid |-> 201,
     parent_pid |-> 1, parent_tgid |-> 2, exit_code |-> 9, exit_signal |-> 17]

CoredumpRecord ==
    [tag |-> "Coredump", process_pid |-> 400, process_tgid |-> 401,
     parent_pid |-> 3, parent_tgid |-> 4]

\* recv() has returned the only record of the datagram made of the frames p
ReturnedFrom(p) == pc = "idle" /\ lastRecv = "data" /\ buf = p /\ blen = 4 * Len(p)

\* C11: when the walk steps over a frame of declared length L, the next
\* frame starts ceil(L/4)*4 bytes further and the remaining bytes decrease
\* by the same amount (cursor plus remaining bytes stay the received
\* length); nlmsg_align(L) is ceil(L/4)*4 for every L up to twice a full
\* frame.
C11_PaddedAdvance ==
    /\ [][(AtDecodedFrame /\ pc' = "walk") =>
            (off' = off + Ceil4(CurLen) /\ len' = len - Ceil4(CurLen))]_vars
    /\ [](pc = "walk" => off + len = blen)
    /\ [](\A L \in 0..(2 * FullLen) : nlmsg_align(L) = Ceil4(L))

\* the walk stepped over a frame of declared length 74: the next starts at 76
C11_Witness ==
    /\ pc = "walk"
    /\ Len(buf) = 2 * FullWords
    /\ buf[1] = FullLen - 2
    /\ off = FullLen
    /\ len = blen - FullLen

\* C12: a well-formed frame whose namespace pair is not the process-events
\* registration pushes no record and does not stop the scan; from a
\* datagram of a foreign frame followed by a valid Exec frame recv()
\* returns the Exec record only.
C12_ForeignNamespaceSkipped ==
    /\ [][(AtDecodedFrame /\ (CurIdx # CN_IDX_PROC \/ CurVal # CN_VAL_PROC)) =>
            /\ queue' = queue
            /\ pushed' = pushed
            /\ off' = off + Ceil4(CurLen)
            /\ (len >= Ceil4(CurLen) => pc' = "walk")]_vars
    /\ [](ReturnedFrom(ForeignFrame \o ExecFrame) =>
            (ret = ExecRecord /\ returned = <<ExecRecord>> /\ queue = <<>>))

\* Scenario C: foreign frame, then Exec; recv() returned the Exec record
C12_Witness ==
    /\ ReturnedFrom(ForeignFrame \o ExecFrame)
    /\ ret = ExecRecord
    /\ nrecv = 1

\* C13: a process-events frame whose discriminant is none of fork, exec,
\* exit, coredump pushes no record and the scan goes on; the record of the
\* frame that follows it is enqueued and returned.
C13_UnknownDiscriminantSkipped ==
    /\ [][(/\ AtDecodedFrame
           /\ CurIdx = CN_IDX_PROC
           /\ CurVal = CN_VAL_PROC
           /\ CurWhat \notin {PROC_EVENT_FORK, PROC_EVENT_EXEC,
                              PROC_EVENT_EXIT, PROC_EVENT_COREDUMP}) =>
            /\ queue' = queue
            /\ pushed' = pushed
            /\ off' = off + Ceil4(CurLen)
            /\ (len >= Ceil4(CurLen) => pc' = "walk")]_vars
    /\ [](ReturnedFrom(UnknownFrame \o ForkFrame) =>
            (ret = ForkRecord /\ returned = <<ForkRecord>> /\ queue = <<>>))

\* unknown discriminant, then Fork; recv() returned the Fork record
C13_Witness ==
    /\ ReturnedFrom(UnknownFrame \o ForkFrame)
    /\ ret = ForkRecord
    /\ nrecv = 1

\* C14: a pushed record has the variant its frame's discriminant selects
\* and the field values of the payload; from a datagram of one such frame
\* recv() returns exactly that record and leaves the queue empty.
C14_DecodedFields ==
    /\ \A i \in 1..Len(pushed) :
         LET o == pushed[i].off
             e == pushed[i].ev
             what == Word(buf, blen, fill, o + nlmsg_hdrlen + SizeofCnMsg)
             f(k) == Word(buf, blen, fill,
                          o + nlmsg_hdrlen + SizeofCnMsg + EventDataOffset + 4 * k)
         IN  /\ what = PROC_EVENT_FORK <=> e.tag = "Fork"
             /\ what = PROC_EVENT_EXEC <=> e.tag = "Exec"
             /\ what = PROC_EVENT_EXIT <=> e.tag = "Exit"
             /\ what = PROC_EVENT_COREDUMP <=> e.tag = "Coredump"
             /\ e.tag = "Fork" =>
                  e = [tag |-> "Fork", parent_pid |-> f(0), parent_tgid |-> f(1),
                       child_pid |-> f(2), child_tgid |-> f(3)]
             /\ e.tag = "Exec" =>
                  e = [tag |-> "Exec", process_pid |-> f(0), process_tgid |-> f(1)]
             /\ e.tag = "Exit" =>
                  e = [tag |-> "Exit", process_pid |-> f(0), process_tgid |-> f(1),
                       exit_code |-> f(2), exit_signal |-> f(3),
                       parent_pid |-> f(4), parent_tgid |-> f(5)]
             /\ e.tag = "Coredump" =>
                  e = [tag |-> "Coredump", process_pid |-> f(0), process_tgid |-> f(1),
                       parent_pid |-> f(2), parent_tgid |-> f(3)]
    /\ \A c \in { <<ForkFrame, ForkRecord>>, <<ExecFrame, ExecRecord>>,
                  <<ExitFrame, ExitRecord>>, <<CoredumpFrame, CoredumpRecord>> } :
         ReturnedFrom(c[1]) => (ret = c[2] /\ returned = <<c[2]>> /\ queue = <<>>)

\* Scenario A: one Fork frame; recv() returned that Fork record
C14_Witness ==
    /\ ReturnedFrom(ForkFrame)
    /\ ret = ForkRecord
    /\ queue = <<>>

\* C15 as stated: the length handed to each libc::recv is the lesser of the
\* system page size and 8192.
C15_ReceiveLength ==
    nrecv >= 1 =>
        recvCap = (IF pageSize < MaxBuffer THEN pageSize ELSE MaxBuffer)

\* C16: the overflow-suppression setsockopt is made before the listen
\* datagram is written; if it fails nothing is written; at most one listen
\* datagram is written per construction, by one writev of three parts that
\* the outer header's declared length covers.
C16_ListenHandshake ==
    LET n == Len(syscalls)
        W == { i \in 1..n : syscalls[i].name = "writev" }
    IN  /\ Cardinality(W) <= 1
        /\ Len(sent) = Cardinality(W)
        /\ \A j \in W : \E i \in 1..(j - 1) :
              syscalls[i].name = "setsockopt" /\ syscalls[i].ok
        /\ (\E i \in 1..n : syscalls[i].name = "setsockopt" /\ ~syscalls[i].ok)
              => sent = <<>>
        /\ \A k \in 1..Len(sent) :
              /\ Len(sent[k].iov) = 3
              /\ sent[k].nlmsg_len = sent[k].iov[1] + sent[k].iov[2] + sent[k].iov[3]
              /\ sent[k].cn_len = sent[k].iov[3]

\* construction succeeded: setsockopt, then the one writev
C16_Witness == pc = "idle" /\ Len(sent) = 1 /\ Len(syscalls) = 4

\* C17: when the last frame's declared length fits the remaining bytes but
\* its padded length does not, the frame is decoded (its record, if any,
\* enqueued) and the walk stops; the remaining-byte count never underflows.
C17_PaddingPastEnd ==
    /\ [][(AtDecodedFrame /\ len < Ceil4(CurLen)) =>
            /\ pc' = "while"
            /\ halt' = "sub"
            /\ len' = len
            /\ queue' = (IF parse_msg(buf, blen, fill, off) # None
                           THEN Append(queue, parse_msg(buf, blen, fill, off))
                           ELSE queue)]_vars
    /\ [](len >= 0 /\ len <= blen)

\* a frame of declared length 74 received as 74 bytes: decoded, walk stopped
C17_Witness ==
    /\ pc = "while"
    /\ halt = "sub"
    /\ blen = FullLen - 2
    /\ queue = <<ExecRecord>>

\* C18 as stated: a record is produced only from a frame whose declared
\* length covers the outer header, the envelope header and the whole event
\* payload, all inside the bytes the receive filled.
C18_DecodeWithinFrame ==
    \A i \in 1..Len(pushed) :
        /\ Word(buf, blen, fill, pushed[i].off) >= FullLen
        /\ pushed[i].off + FullLen <= blen

\* C19 as stated: the walk over a datagram ends after finitely many steps:
\* every iteration but the last hands a new, later frame position to the
\* decoder, so no position is decoded (or enqueued from) twice.
C19_WalkTerminates ==
    /\ \A i, j \in 1..Len(visited) : i < j => visited[i] < visited[j]
    /\ \A i, j \in 1..Len(pushed) : i < j => pushed[i].off < pushed[j].off
    /\ iter <= Len(visited) + 1

\* C20: recv() returns none only with an empty queue, and a receive is only
\* issued while the queue is empty.
C20_NoneOnlyWhenEmpty ==
    /\ []((pc = "idle" /\ ret = None) => queue = <<>>)
    /\ [](pc = "recv" => queue = <<>>)
    /\ [][nrecv' = nrecv + 1 => (queue = <<>> /\ pc = "recv")]_vars

\* recv() returned none after two receives, the queue empty
C20_Witness ==
    /\ pc = "idle"
    /\ ret = None
    /\ nrecv = 2
    /\ queue = <<>>
    /\ result = "Ok"

====
